---- MODULE Spec2Model ----
(***************************************************************************)
(* ctx_stack: a stack of logging-context snapshots (ContextStack) and the  *)
(* module-level facade (update, dumps, reset, save_context,                *)
(* restore_context) over the process-wide instance _context_stack.         *)
(*                                                                         *)
(* A snapshot (a Python dict) is a function from a set of keys to values.  *)
(* Python lists and deques are objects: the heap maps a reference to the   *)
(* contents of the list it names, so that an in-place change (append, pop, *)
(* clear) is seen through every reference to that object.  References are  *)
(* names up to renaming: an object nothing refers to any more gives its    *)
(* name back.                                                              *)
(***************************************************************************)
EXTENDS Integers, Sequences, FiniteSets, TLC

\* Bounds of the model: the depth of the stack and the open update() scopes.
MaxDepth == 3
MaxScopes == 2

\* Keys and values a caller passes as keyword arguments.
Keys == {"user", "message"}
Values == {1, 2}

\* The names of the list objects.
Refs == {"r1", "r2"}
NoRef == "None"
Free == [free |-> TRUE]

VARIABLES
    heap,         \* Refs -> contents of that list object (a sequence of dicts), or Free
    attributes,   \* _context_stack._attributes: the reference the ContextStack holds
    saved,        \* the caller's variable holding what save() returned, or NoRef
    savedAt,      \* history: the contents of the stack when save() was called
    op,           \* the last call made
    arg,          \* the argument of the last call
    ret,          \* what the last call returned
    warned,       \* the warnings the last call logged
    popped,       \* the pop() calls the last call made
    scopes,       \* the open update() scopes of the thread, outermost first: what
                  \* the caller passed (given), the kwargs after the remapping,
                  \* the dict yielded, and (history) the stack before the entry
    exc,          \* TRUE while an exception raised in a scope body propagates
    threads       \* the two threads that run one update() scope each on the
                  \* shared stack: where the thread is in update (pc), its
                  \* kwargs as passed (given) and remapped, the dict yielded to
                  \* it, the dict its last dumps() returned (seen), and
                  \* (history) the stack at its push (pre) and the stack when
                  \* the threads were started (start)

vars == <<heap, attributes, saved, savedAt, op, arg, ret, warned, popped, scopes, exc, threads>>

------------------------------------------------------------------------------
\* Dicts.

EmptyDict == [k \in {} |-> 0]

\* a | b: the keys of both, the value of b where both have the key.
Merge(a, b) == [k \in (DOMAIN a) \cup (DOMAIN b) |-> IF k \in DOMAIN b THEN b[k] ELSE a[k]]

\* Every dict with keys among ks.
DictsOver(ks) == UNION {[d -> Values] : d \in SUBSET ks}

\* The keyword arguments a caller may pass: "user" with either value,
\* "message" (a reserved key) with the first.
Kwargs == {d \in DictsOver(Keys) : "message" \in DOMAIN d => d["message"] = 1}

\* The keyword arguments the facade is called with.
ScopeKwargs == {[user |-> 1], [user |-> 2, message |-> 1]}

\* The values a call returns, and the arguments it takes.
NoArg == [kind |-> "None"]
ArgDict(d) == [kind |-> "dict", val |-> d]
RetNone == [kind |-> "None"]
RetDict(d) == [kind |-> "dict", val |-> d]
RetRef(r) == [kind |-> "ref", val |-> r]

------------------------------------------------------------------------------
\* ContextStack, on the contents of self._attributes.

\* __init__: deque([{}])
ContextStackInit == <<EmptyDict>>

Top(attrs) == attrs[Len(attrs)]

\* push that updates the current context in place instead of appending.
push_in_place(attrs, new_context_vars) ==
    [attrs EXCEPT ![Len(attrs)] = Merge(@, new_context_vars)]

\* push with the merge turned round: the old context wins.
push_left_biased(attrs, new_context_vars) ==
    Append(attrs, Merge(new_context_vars, Top(attrs)))

\* push that appends the deltas alone, without the merge with the top.
push_deltas_only(attrs, kwargs) == Append(attrs, kwargs)

\* push: old_context | deepcopy(new_context_vars), appended.
push(attrs, new_context_vars) ==
    LET old_context == Top(attrs)
        new_context == Merge(old_context, new_context_vars)
    IN  Append(attrs, new_context)

\* pop without the check for the base context.
pop_unguarded(attrs) ==
    [attrs |-> SubSeq(attrs, 1, Len(attrs) - 1), ret |-> Top(attrs), warned |-> 0]

\* pop that returns the context left on top instead of the one removed.
pop_returns_new_top(attrs) ==
    IF Len(attrs) <= 1
    THEN [attrs |-> attrs, ret |-> attrs[1], warned |-> 1]
    ELSE [attrs |-> SubSeq(attrs, 1, Len(attrs) - 1), ret |-> attrs[Len(attrs) - 1], warned |-> 0]

\* deque.popleft() in place of deque.pop(): the oldest snapshot goes.
pop_left(attrs) ==
    IF Len(attrs) > 1
    THEN [attrs |-> Tail(attrs), ret |-> Head(attrs), warned |-> 0]
    ELSE [attrs |-> attrs, ret |-> Top(attrs), warned |-> 1]

\* pop: [attrs, ret, warned]. With only the base context left it logs a warning
\* and returns the base context, removing nothing.
pop(attrs) ==
    IF Len(attrs) <= 1
    THEN [attrs |-> attrs, ret |-> attrs[1], warned |-> 1]
    ELSE [attrs |-> SubSeq(attrs, 1, Len(attrs) - 1), ret |-> Top(attrs), warned |-> 0]

\* dumps with the merge turned round: the current context wins.
dumps_left_biased(attrs, kwargs) == Merge(kwargs, Top(attrs))

\* dumps: {} | self._attributes[-1] | kwargs
dumps(attrs, kwargs) == Merge(Merge(EmptyDict, Top(attrs)), kwargs)

\* reset without the clear().
reset_no_clear(attrs) == Append(attrs, EmptyDict)

\* reset: clear(), then append({}).
reset(attrs) ==
    LET cleared == SubSeq(attrs, 1, 0)
    IN  Append(cleared, EmptyDict)

\* save of the current context alone.
save_top_only(attrs) == <<Top(attrs)>>

\* save: copy.deepcopy(list(self._attributes)), a new list object.
save(attrs) == [i \in 1..Len(attrs) |-> attrs[i]]

\* What the caller hands to restore: None, or a list.
ArgNone == [absent |-> TRUE, items |-> <<>>]
ArgList(items) == [absent |-> FALSE, items |-> items]

\* "not saved_context": None and the empty list are falsy.
Falsy(saved_context) == saved_context.absent \/ Len(saved_context.items) = 0

\* restore that returns on a falsy argument without the reset.
restore_no_reset(attrs, saved_context) ==
    IF Falsy(saved_context)
    THEN [inplace |-> TRUE, attrs |-> attrs]
    ELSE [inplace |-> FALSE,
          attrs |-> [i \in 1..Len(saved_context.items) |-> saved_context.items[i]]]

\* restore: [inplace, attrs]. A falsy argument resets the deque in place;
\* otherwise self._attributes becomes a new deque holding a deep copy.
restore(attrs, saved_context) ==
    IF Falsy(saved_context)
    THEN [inplace |-> TRUE, attrs |-> reset(attrs)]
    ELSE LET copied == [i \in 1..Len(saved_context.items) |-> saved_context.items[i]]
         IN  [inplace |-> FALSE,
              attrs |-> IF Len(copied) = 0 THEN Append(copied, EmptyDict) ELSE copied]

------------------------------------------------------------------------------
\* The heap.

Live == heap[attributes]
Depth == Len(Live)

\* A reference for a new object, none of `keep` (the references still held).
NewRef(keep) == IF "r1" \notin keep THEN "r1" ELSE "r2"

\* The heap with object r set to v and every object not in `held` given back.
Store(h, r, v, held) == [q \in Refs |-> IF q = r THEN v ELSE IF q \in held THEN h[q] ELSE Free]

\* save that returns self._attributes itself.
SaveRefAlias == attributes

\* The object save() returns: list(...) deep-copied is a new list.
SaveRef == NewRef({attributes})

\* The object restore() assigns to self._attributes: deque(...) of a deep copy is
\* a new deque; the old one is dropped by the assignment.
RestoreRef == NewRef({saved} \cap Refs)

------------------------------------------------------------------------------
\* Calls on the ContextStack instance.

Threads == {1, 2}

\* Both threads before their with statement, the shared stack being start.
ThreadsAt(start) ==
    [t \in Threads |-> [pc |-> "start", given |-> EmptyDict, kwargs |-> EmptyDict,
                        yielded |-> EmptyDict, seen |-> EmptyDict,
                        pre |-> <<>>, start |-> start]]

Init ==
    /\ heap = [r \in Refs |-> IF r = "r1" THEN ContextStackInit ELSE Free]
    /\ attributes = "r1"
    /\ saved = NoRef
    /\ savedAt = <<>>
    /\ op = "init"
    /\ arg = NoArg
    /\ ret = RetNone
    /\ warned = 0
    /\ popped = 0
    /\ scopes = <<>>
    /\ exc = FALSE
    /\ threads = ThreadsAt(ContextStackInit)

\* self._attributes.append(...): the deque changes in place.
DoPush(kwargs) ==
    /\ heap' = [heap EXCEPT ![attributes] = push(@, kwargs)]
    /\ UNCHANGED attributes

DoPop ==
    LET r == pop(Live)
    IN  /\ heap' = [heap EXCEPT ![attributes] = r.attrs]
        /\ ret' = RetDict(r.ret)
        /\ warned' = r.warned
        /\ popped' = 1
        /\ UNCHANGED attributes

DoReset ==
    /\ heap' = [heap EXCEPT ![attributes] = reset(@)]
    /\ UNCHANGED attributes

\* The caller keeps what save() returns in its variable.
DoSave ==
    LET r == SaveRef
    IN  /\ heap' = Store(heap, r, save(Live), {attributes, r})
        /\ saved' = r
        /\ savedAt' = Live
        /\ ret' = RetRef(r)
        /\ UNCHANGED attributes

DoRestore(saved_context) ==
    LET r == restore(Live, saved_context)
        new == IF r.inplace THEN attributes ELSE RestoreRef
    IN  /\ heap' = Store(heap, new, r.attrs, {new} \cup ({saved} \cap Refs))
        /\ attributes' = new

\* The arguments restore is called with: None, [], or what save() returned.
RestoreArgs ==
    {ArgNone, ArgList(<<>>)} \cup (IF saved = NoRef THEN {} ELSE {ArgList(heap[saved])})

Push ==
    \E kwargs \in Kwargs :
        /\ Depth < MaxDepth
        /\ DoPush(kwargs)
        /\ op' = "push" /\ arg' = ArgDict(kwargs)
        /\ ret' = RetNone /\ warned' = 0 /\ popped' = 0
        /\ UNCHANGED <<saved, savedAt, scopes, exc, threads>>

Pop ==
    /\ DoPop
    /\ op' = "pop" /\ arg' = NoArg
    /\ UNCHANGED <<saved, savedAt, scopes, exc, threads>>

Dumps ==
    \E kwargs \in Kwargs :
        /\ ret' = RetDict(dumps(Live, kwargs))
        /\ op' = "dumps" /\ arg' = ArgDict(kwargs)
        /\ warned' = 0 /\ popped' = 0
        /\ UNCHANGED <<heap, attributes, saved, savedAt, scopes, exc, threads>>

Reset ==
    /\ DoReset
    /\ op' = "reset" /\ arg' = NoArg
    /\ ret' = RetNone /\ warned' = 0 /\ popped' = 0
    /\ UNCHANGED <<saved, savedAt, scopes, exc, threads>>

Save ==
    /\ DoSave
    /\ op' = "save" /\ arg' = NoArg
    /\ warned' = 0 /\ popped' = 0
    /\ UNCHANGED <<scopes, exc, threads>>

Restore ==
    \E saved_context \in RestoreArgs :
        /\ DoRestore(saved_context)
        /\ op' = "restore" /\ arg' = saved_context
        /\ ret' = RetNone /\ warned' = 0 /\ popped' = 0
        /\ UNCHANGED <<saved, savedAt, scopes, exc, threads>>

Next == Push \/ Pop \/ Dumps \/ Reset \/ Save \/ Restore

Spec == Init /\ [][Next]_vars

------------------------------------------------------------------------------
\* The facade over _context_stack, called from one thread.

ReservedKeys ==
    << "args", "asctime", "created", "exc_info", "exc_text", "filename",
       "funcName", "levelname", "levelno", "lineno", "message", "module",
       "msecs", "msg", "name", "pathname", "process", "processName",
       "relativeCreated", "stack_info", "thread", "threadName" >>

\* kwargs[name] = value
SetItem(d, name, value) == [k \in (DOMAIN d) \cup {name} |-> IF k = name THEN value ELSE d[k]]

\* kwargs without the key
DelItem(d, name) == [k \in (DOMAIN d) \ {name} |-> d[k]]

\* The keyword arguments _replace_reserved_extra_kwargs is called with: ordinary
\* keys, reserved keys, and keys that already carry the prefix.
ReplaceKeys == {"user", "message", "ctx_message", "msg", "ctx_msg"}
ReplaceKwargs == DictsOver(ReplaceKeys)

\* The loop of _replace_reserved_extra_kwargs from the i-th reserved key on:
\* kwargs[f"ctx_{key}"] = kwargs.pop(key)
RECURSIVE ReplaceFrom(_, _)
ReplaceFrom(kwargs, i) ==
    IF i > Len(ReservedKeys)
    THEN kwargs
    ELSE LET key == ReservedKeys[i]
         IN  IF key \in DOMAIN kwargs
             THEN ReplaceFrom(SetItem(DelItem(kwargs, key), "ctx_" \o key, kwargs[key]), i + 1)
             ELSE ReplaceFrom(kwargs, i + 1)

\* _replace_reserved_extra_kwargs that returns kwargs as they came.
replace_nothing(kwargs) == kwargs

replace_reserved_extra_kwargs(kwargs) == ReplaceFrom(kwargs, 1)

\* _replace_reserved_extra_kwargs called on a dict of its own.
Replace ==
    \E kwargs \in ReplaceKwargs :
        /\ op' = "replace_reserved" /\ arg' = ArgDict(kwargs)
        /\ ret' = RetDict(replace_reserved_extra_kwargs(kwargs))
        /\ warned' = 0 /\ popped' = 0
        /\ UNCHANGED <<heap, attributes, saved, savedAt, scopes, exc, threads>>

SpecReplace == Init /\ [][Replace]_vars

\* The pop after the yield without the finally: skipped when the body raised.
ExitPopsNoFinally(raised) == IF raised THEN 0 ELSE 1

\* The pop() calls the exit of an update() scope makes: the pop stands in a
\* finally clause, so it runs whether or not the body raised.
ExitPops(raised) == 1

\* update(**kwargs), up to the yield: the scope is entered.
Update ==
    \E kwargs \in ScopeKwargs :
        LET remapped == replace_reserved_extra_kwargs(kwargs)
            pushed == push(Live, remapped)
        IN  /\ ~exc
            /\ Depth < MaxDepth
            /\ Len(scopes) < MaxScopes
            /\ DoPush(remapped)
            /\ scopes' = Append(scopes, [given |-> kwargs,
                                         kwargs |-> remapped,
                                         yielded |-> dumps(pushed, EmptyDict),
                                         pre |-> Live])
            /\ op' = "update" /\ arg' = ArgDict(kwargs)
            /\ ret' = RetDict(dumps(pushed, EmptyDict))
            /\ warned' = 0 /\ popped' = 0
            /\ UNCHANGED <<saved, savedAt, exc, threads>>

\* update(), after the yield: the innermost scope is left, normally or by the
\* exception that propagates.
UpdateExit ==
    /\ Len(scopes) > 0
    /\ scopes' = SubSeq(scopes, 1, Len(scopes) - 1)
    /\ IF ExitPops(exc) = 1
       THEN /\ heap' = [heap EXCEPT ![attributes] = pop(Live).attrs]
            /\ warned' = pop(Live).warned
       ELSE /\ UNCHANGED heap
            /\ warned' = 0
    /\ popped' = ExitPops(exc)
    /\ op' = "update_exit" /\ arg' = NoArg /\ ret' = RetNone
    /\ UNCHANGED <<attributes, saved, savedAt, exc, threads>>

\* The body of the innermost scope raises.
Raise ==
    /\ Len(scopes) > 0
    /\ ~exc
    /\ exc' = TRUE
    /\ op' = "raise" /\ arg' = NoArg /\ ret' = RetNone
    /\ warned' = 0 /\ popped' = 0
    /\ UNCHANGED <<heap, attributes, saved, savedAt, scopes, threads>>

\* An except clause around the innermost open scope catches the exception.
Catch ==
    /\ exc
    /\ exc' = FALSE
    /\ op' = "except" /\ arg' = NoArg /\ ret' = RetNone
    /\ warned' = 0 /\ popped' = 0
    /\ UNCHANGED <<heap, attributes, saved, savedAt, scopes, threads>>

\* dumps(**kwargs) of the module.
ModDumps ==
    \E kwargs \in ScopeKwargs :
        /\ ~exc
        /\ ret' = RetDict(dumps(Live, replace_reserved_extra_kwargs(kwargs)))
        /\ op' = "dumps" /\ arg' = ArgDict(kwargs)
        /\ warned' = 0 /\ popped' = 0
        /\ UNCHANGED <<heap, attributes, saved, savedAt, scopes, exc, threads>>

\* reset() of the module.
ModReset ==
    /\ ~exc
    /\ DoReset
    /\ op' = "reset" /\ arg' = NoArg
    /\ ret' = RetNone /\ warned' = 0 /\ popped' = 0
    /\ UNCHANGED <<saved, savedAt, scopes, exc, threads>>

SaveContext ==
    /\ ~exc
    /\ DoSave
    /\ op' = "save" /\ arg' = NoArg
    /\ warned' = 0 /\ popped' = 0
    /\ UNCHANGED <<scopes, exc, threads>>

RestoreContext ==
    \E saved_context \in RestoreArgs :
        /\ ~exc
        /\ DoRestore(saved_context)
        /\ op' = "restore" /\ arg' = saved_context
        /\ ret' = RetNone /\ warned' = 0 /\ popped' = 0
        /\ UNCHANGED <<saved, savedAt, scopes, exc, threads>>

\* The calls that leave the stack as it is but for the scopes they open and
\* close: nested update() scopes, dumps(), save_context() and exceptions.
NextNested == Update \/ UpdateExit \/ Raise \/ Catch \/ ModDumps \/ SaveContext

SpecNested == Init /\ [][NextNested]_vars

\* Every call of the facade.
NextFacade ==
    \/ Update \/ UpdateExit \/ Raise \/ Catch
    \/ ModDumps \/ ModReset \/ SaveContext \/ RestoreContext

SpecFacade == Init /\ [][NextFacade]_vars

------------------------------------------------------------------------------
\* Properties of the ContextStack (Spec).

\* C1: whatever push, pop, dumps, reset, save and restore calls were made
\* (restore of None, of [] or of what save returned), the stack holds at least
\* one snapshot.
C1_NeverEmpty == Depth >= 1

\* A pop at depth 1 was just refused.
C1_Witness == op = "pop" /\ warned = 1 /\ Depth = 1 /\ saved # NoRef

\* C2: pop at depth 1 keeps the depth and the base snapshot, returns the base
\* snapshot and logs one warning; pop at depth n > 1 leaves depth n-1, returns
\* the snapshot that was on top, logs nothing and keeps snapshots 0..n-2.
C2_PopFloor ==
    [][op' = "pop" =>
        IF Depth = 1
        THEN /\ Depth' = 1
             /\ Live' = Live
             /\ ret' = RetDict(Live[1])
             /\ warned' = 1
        ELSE /\ Depth' = Depth - 1
             /\ ret' = RetDict(Top(Live))
             /\ warned' = 0
             /\ \A i \in 1..(Depth - 1) : Live'[i] = Live[i]]_vars

\* A pop at depth 3 returned a snapshot other than the one now on top.
C2_Witness == op = "pop" /\ warned = 0 /\ Depth = 2 /\ ret.val # Top(Live)

\* C6: restore(S), with S returned by save() in a state X and whatever calls
\* were made since, makes the stack equal to X again: the same depth and the
\* same snapshot at every index.
C6_RoundTrip ==
    (op = "restore" /\ ~Falsy(arg)) =>
        /\ Live = savedAt
        /\ Depth = Len(savedAt)
        /\ dumps(Live, EmptyDict) = Top(savedAt)

\* A stack of depth 3 was restored.
C6_Witness == op = "restore" /\ ~Falsy(arg) /\ Depth = 3 /\ DOMAIN Top(Live) = Keys

\* C7: the list save() returned is never changed by a later call on the stack,
\* nor by calls made after it was restored; restoring it again restores the
\* same sequence.
C7_SavedUntouched ==
    saved # NoRef =>
        /\ heap[saved] = savedAt
        /\ saved # attributes
        /\ (op = "restore" /\ ~Falsy(arg)) => arg.items = savedAt

\* After a save the stack was changed by a push, a pop or a reset.
C7_Witness == saved # NoRef /\ op \in {"push", "pop", "reset"} /\ Live # savedAt

\* C8: restore(None) and restore([]) leave exactly the state reset() leaves:
\* depth 1 and an empty dumps().
C8_RestoreEmptyIsReset ==
    [][(op' = "restore" /\ Falsy(arg')) =>
        /\ heap' = [heap EXCEPT ![attributes] = reset(@)]
        /\ attributes' = attributes
        /\ Depth' = 1
        /\ dumps(Live', EmptyDict) = EmptyDict]_vars

\* restore([]) was called with a saved state at hand.
C8_Witness == op = "restore" /\ Falsy(arg) /\ ~arg.absent /\ saved # NoRef

\* C10: push(deltas) at depth n gives depth n+1; the new top has the keys of
\* deltas with the values of deltas, the other keys of the former top with
\* their former values, and no other key; snapshots 0..n-1 are unchanged.
C10_Push ==
    [][op' = "push" =>
        LET deltas == arg'.val
            old == Top(Live)
            new == Top(Live')
        IN  /\ Depth' = Depth + 1
            /\ DOMAIN new = (DOMAIN old) \cup (DOMAIN deltas)
            /\ \A k \in DOMAIN deltas : new[k] = deltas[k]
            /\ \A k \in (DOMAIN old) \ (DOMAIN deltas) : new[k] = old[k]
            /\ \A i \in 1..Depth : Live'[i] = Live[i]]_vars

\* A push at depth 2 overrode "user" and carried "message" over.
C10_Witness ==
    /\ op = "push" /\ Depth = 3
    /\ arg.val = [user |-> 2]
    /\ Live[2] = [user |-> 1, message |-> 1]
    /\ Top(Live) = [user |-> 2, message |-> 1]

------------------------------------------------------------------------------
\* Properties of update() scopes.

\* The innermost open scope.
Innermost == scopes[Len(scopes)]

\* d1 | d2 | ... | dn for the first n open scopes: what the caller passed, and
\* the kwargs after the remapping of reserved keys.
RECURSIVE GivenUnion(_)
GivenUnion(n) == IF n = 0 THEN EmptyDict ELSE Merge(GivenUnion(n - 1), scopes[n].given)

RECURSIVE RemappedUnion(_)
RemappedUnion(n) == IF n = 0 THEN EmptyDict ELSE Merge(RemappedUnion(n - 1), scopes[n].kwargs)

\* C3 as claimed: with scopes nested from the base-only stack, the dict yielded
\* to each scope and dumps() in the innermost one equal the right-biased union
\* of the deltas d1..dn the callers passed.
C3_Original ==
    /\ \A i \in 1..Len(scopes) : scopes[i].yielded = GivenUnion(i)
    /\ Len(scopes) > 0 => dumps(Live, EmptyDict) = GivenUnion(Len(scopes))

C3_NestedView ==
    /\ \A i \in 1..Len(scopes) : scopes[i].yielded = RemappedUnion(i)
    /\ Len(scopes) > 0 => dumps(Live, EmptyDict) = RemappedUnion(Len(scopes))

C3_NestedExit ==
    op' = "update_exit" =>
        /\ dumps(Live', EmptyDict) = dumps(Innermost.pre, EmptyDict)
        /\ Len(scopes') = 0 => Live' = ContextStackInit

\* C3, amended: with scopes nested from the base-only stack, the dict yielded
\* to each scope and dumps() in the innermost one equal the right-biased union
\* of d1..dn after the remapping of their reserved keys (an inner scope's value
\* wins); when a scope exits, the merged view is the one from just before its
\* entry, and the base-only stack is back once all have exited.
C3_BalancedNesting == []C3_NestedView /\ [][C3_NestedExit]_vars

\* Two nested scopes, the inner one overriding "user" and passing a reserved key.
C3_Witness ==
    /\ Len(scopes) = 2
    /\ scopes[1].given = [user |-> 1]
    /\ scopes[2].given = [user |-> 2, message |-> 1]
    /\ op = "dumps"
    /\ ret = RetDict([user |-> 2, ctx_message |-> 1])

\* C4 as claimed: when the body raised, the exit makes one pop, leaves the
\* stack as it was before the scope was entered, and no key of the scope's
\* deltas is in the merged view.
C4_Original ==
    [][(op' = "update_exit" /\ exc) =>
        /\ popped' = 1
        /\ Live' = Innermost.pre
        /\ \A k \in DOMAIN Innermost.kwargs : k \notin DOMAIN dumps(Live', EmptyDict)]_vars

\* C4, amended: when the body raised, the exit makes one pop, which acts as at
\* a normal exit (it removes the topmost snapshot, or nothing at depth 1); if
\* the body left the stack as it was right after the entry, the stack is then
\* the one from before the entry, and each key of the scope's deltas is absent
\* from the merged view unless the view before the entry held it, and then it
\* has the value from before the entry.
C4_ExitSafety ==
    [][(op' = "update_exit" /\ exc) =>
        /\ popped' = 1
        /\ Live' = IF Depth > 1 THEN SubSeq(Live, 1, Depth - 1) ELSE Live
        /\ Live = push(Innermost.pre, Innermost.kwargs) =>
            /\ Live' = Innermost.pre
            /\ \A k \in DOMAIN Innermost.kwargs :
                LET view == dumps(Live', EmptyDict)
                    before == dumps(Innermost.pre, EmptyDict)
                IN  IF k \in DOMAIN before
                    THEN k \in DOMAIN view /\ view[k] = before[k]
                    ELSE k \notin DOMAIN view]_vars

\* An inner scope that set "user" was left by an exception and the outer
\* scope, which had set "user" too, is as it was.
C4_Witness ==
    /\ op = "update_exit" /\ exc /\ popped = 1
    /\ Len(scopes) = 1
    /\ Live = push(scopes[1].pre, scopes[1].kwargs)
    /\ "user" \in DOMAIN Top(Live)

\* C5 as claimed: whatever the body called, the exit makes one pop, the pop
\* removes the snapshot the entry pushed, and the snapshot then on top is the
\* one that was on top before the entry.
C5_Original ==
    [][op' = "update_exit" =>
        /\ popped' = 1
        /\ Depth' = Depth - 1
        /\ Top(Live) = Top(push(Innermost.pre, Innermost.kwargs))
        /\ Top(Live') = Top(Innermost.pre)]_vars

\* C5, amended: whatever the body called, the exit makes one pop, on the stack
\* as the body left it: at depth 1 it removes nothing and logs the warning,
\* otherwise it removes the topmost snapshot; if the body left the stack as it
\* was right after the entry, that is the snapshot the entry pushed and the
\* stack is then the one from before the entry.
C5_OnePopAtExit ==
    [][op' = "update_exit" =>
        /\ popped' = 1
        /\ IF Depth = 1
           THEN Live' = Live /\ warned' = 1
           ELSE Live' = SubSeq(Live, 1, Depth - 1) /\ warned' = 0
        /\ Live = push(Innermost.pre, Innermost.kwargs) =>
            Live' = Innermost.pre /\ warned' = 0]_vars

\* A scope whose body called reset() exits with another scope still open: its
\* pop found only the base context.
C5_Witness ==
    /\ op = "update_exit" /\ popped = 1 /\ warned = 1
    /\ Len(scopes) = 1 /\ ~exc

\* C9: reset(), at any depth and with or without open update() scopes, leaves
\* exactly one snapshot, the empty dict.
C9_Reset == op = "reset" => (Depth = 1 /\ Live[1] = EmptyDict)

\* reset() was called with two scopes open.
C9_Witness == op = "reset" /\ Len(scopes) = 2 /\ saved # NoRef

------------------------------------------------------------------------------
\* The two dumps, of the module and of the ContextStack instance, in the states
\* that update() scopes and reset() lead to.
NextDumps == Update \/ UpdateExit \/ ModReset \/ ModDumps \/ Dumps

SpecDumps == Init /\ [][NextDumps]_vars

C11_Returns(overrides) ==
    LET top == Top(Live)
        out == ret'.val
    IN  /\ ret' = RetDict(Merge(top, overrides))
        /\ DOMAIN out = (DOMAIN top) \cup (DOMAIN overrides)
        /\ \A k \in DOMAIN overrides : out[k] = overrides[k]
        /\ \A k \in (DOMAIN top) \ (DOMAIN overrides) : out[k] = top[k]
        /\ heap' = heap /\ attributes' = attributes
        /\ Depth' = Depth /\ \A i \in 1..Depth : Live'[i] = Live[i]
        /\ Depth = 1 => out = Merge(Live[1], overrides)

------------------------------------------------------------------------------
\* Two threads on the one module-level stack, each running
\*     with update(**kwargs): ... dumps() ...
\* A call of push, of dumps and of pop is one step; the threads interleave
\* between the calls.

\* The stacks the threads may find when they start: the base snapshot alone,
\* or a context pushed before the threads were started.
StartStacks == {ContextStackInit, push(ContextStackInit, [user |-> 2])}

InitThreads ==
    \E start \in StartStacks :
        /\ heap = [r \in Refs |-> IF r = "r1" THEN start ELSE Free]
        /\ attributes = "r1"
        /\ saved = NoRef
        /\ savedAt = <<>>
        /\ op = "init"
        /\ arg = NoArg
        /\ ret = RetNone
        /\ warned = 0
        /\ popped = 0
        /\ scopes = <<>>
        /\ exc = FALSE
        /\ threads = ThreadsAt(start)

\* update, up to the push (lines 92-93).
ThreadEnter(t) ==
    /\ threads[t].pc = "start"
    /\ \E given \in ScopeKwargs :
        LET kwargs == replace_reserved_extra_kwargs(given)
        IN  /\ DoPush(kwargs)
            /\ threads' = [threads EXCEPT ![t].pc = "pushed", ![t].given = given,
                                          ![t].kwargs = kwargs, ![t].pre = Live]
            /\ op' = "thread_push" /\ arg' = ArgDict(given) /\ ret' = RetNone
            /\ warned' = 0 /\ popped' = 0
            /\ UNCHANGED <<saved, savedAt, scopes, exc>>

\* yield _context_stack.dumps() (line 95).
ThreadYield(t) ==
    /\ threads[t].pc = "pushed"
    /\ LET view == dumps(Live, EmptyDict)
       IN  /\ threads' = [threads EXCEPT ![t].pc = "body", ![t].yielded = view,
                                         ![t].seen = view]
           /\ op' = "thread_yield" /\ arg' = NoArg /\ ret' = RetDict(view)
    /\ warned' = 0 /\ popped' = 0
    /\ UNCHANGED <<heap, attributes, saved, savedAt, scopes, exc>>

\* dumps() in the body of the with statement.
ThreadDumps(t) ==
    /\ threads[t].pc = "body"
    /\ LET view == dumps(Live, replace_reserved_extra_kwargs(EmptyDict))
       IN  /\ threads' = [threads EXCEPT ![t].seen = view]
           /\ op' = "thread_dumps" /\ arg' = ArgDict(EmptyDict) /\ ret' = RetDict(view)
    /\ warned' = 0 /\ popped' = 0
    /\ UNCHANGED <<heap, attributes, saved, savedAt, scopes, exc>>

\* finally: _context_stack.pop() (lines 96-97).
ThreadExit(t) ==
    /\ threads[t].pc = "body"
    /\ DoPop
    /\ threads' = [threads EXCEPT ![t].pc = "done"]
    /\ op' = "thread_pop" /\ arg' = NoArg
    /\ UNCHANGED <<saved, savedAt, scopes, exc>>

NextThreads ==
    \E t \in Threads :
        ThreadEnter(t) \/ ThreadYield(t) \/ ThreadDumps(t) \/ ThreadExit(t)

SpecThreads == InitThreads /\ [][NextThreads]_vars

------------------------------------------------------------------------------
\* Properties of the remapping of reserved keys.

Reserved == {ReservedKeys[i] : i \in 1..Len(ReservedKeys)}

NoReservedKey(d) == (DOMAIN d) \cap Reserved = {}

\* C12: with the stack changed through the facade only, no reserved name is a
\* key of a snapshot on the stack, of a saved snapshot, of a dict yielded by
\* update or of a dict returned by dumps; a reserved key k the caller passed
\* is there as ctx_k with the caller's value.
C12_ReservedIsolation ==
    /\ \A i \in 1..Depth : NoReservedKey(Live[i])
    /\ saved # NoRef => \A i \in 1..Len(heap[saved]) : NoReservedKey(heap[saved][i])
    /\ \A i \in 1..Len(scopes) : NoReservedKey(scopes[i].yielded)
    /\ op \in {"update", "dumps"} =>
        /\ NoReservedKey(ret.val)
        /\ \A k \in (DOMAIN arg.val) \cap Reserved :
            /\ ("ctx_" \o k) \in DOMAIN ret.val
            /\ ret.val["ctx_" \o k] = arg.val[k]
    /\ op = "update" =>
        \A k \in (DOMAIN arg.val) \cap Reserved :
            /\ ("ctx_" \o k) \in DOMAIN Top(Live)
            /\ Top(Live)["ctx_" \o k] = arg.val[k]

\* update(user=2, message=1) pushed ctx_message, and the snapshot was saved.
C12_Witness ==
    /\ op = "save" /\ Len(scopes) = 1
    /\ scopes[1].given = [user |-> 2, message |-> 1]
    /\ heap[saved] = <<EmptyDict, [user |-> 2, ctx_message |-> 1]>>

\* C13: the remapping drops no entry: each value the caller passed is in the
\* remapped dict, under ctx_k for a reserved key k and under its own key
\* otherwise, and the remapped dict has as many entries as the one passed.
C13_NoEntryDropped ==
    op = "replace_reserved" =>
        /\ Cardinality(DOMAIN ret.val) = Cardinality(DOMAIN arg.val)
        /\ \A k \in DOMAIN arg.val :
            LET name == IF k \in Reserved THEN "ctx_" \o k ELSE k
            IN  name \in DOMAIN ret.val /\ ret.val[name] = arg.val[k]

------------------------------------------------------------------------------
\* Properties of two threads on the shared stack.

Open(t) == threads[t].pc \in {"pushed", "body"}

Done(t) == threads[t].pc = "done"

\* Thread t pushed while the scope of thread u was open on the start stack.
EnteredInside(t, u) ==
    /\ threads[t].pc # "start" /\ threads[u].pc # "start"
    /\ threads[t].pre = push(threads[t].start, threads[u].kwargs)

\* C14: with two threads that each run an update() scope on the same stack,
\* the pop at the exit of one scope removes the snapshot the other scope
\* pushed: whenever thread t has entered inside the scope of thread u and u
\* has left first, the pop of u has returned the snapshot of t, the stack is
\* as it was before t pushed, with the snapshot of u on top, and the scope of
\* t, still open, gets from dumps() the deltas of u and none of its own that u
\* or the start stack did not set. The witness is such an interleaving.
C14_ExitRemovesOthersSnapshot ==
    \A t \in Threads : \A u \in Threads \ {t} :
        (Open(t) /\ Done(u) /\ EnteredInside(t, u)) =>
            /\ Live = threads[t].pre
            /\ Top(Live) = Merge(Top(threads[t].start), threads[u].kwargs)
            /\ dumps(Live, EmptyDict) = Merge(Top(threads[t].start), threads[u].kwargs)
            /\ op = "thread_pop" => ret = RetDict(Merge(Top(threads[t].pre), threads[t].kwargs))
            /\ threads[t].pc = "body" /\ op = "thread_dumps" =>
                threads[t].seen = Merge(Top(threads[t].start), threads[u].kwargs)

\* Thread 1 entered with user=1, thread 2 inside it with user=2, message=1;
\* thread 1 left; dumps() in the body of thread 2 returns user=1 and no
\* ctx_message.
C14_Witness ==
    /\ Done(1) /\ threads[2].pc = "body" /\ EnteredInside(2, 1)
    /\ threads[1].given = [user |-> 1]
    /\ threads[2].given = [user |-> 2, message |-> 1]
    /\ threads[2].yielded = [user |-> 2, ctx_message |-> 1]
    /\ op = "thread_dumps" /\ ret = RetDict([user |-> 1])
    /\ threads[2].seen = [user |-> 1]

\* C19: two threads that each run one update() scope on the shared stack,
\* push and pop being one step each and nobody calling reset or restore: under
\* every interleaving the stack keeps at least the base snapshot, and all of
\* the start stack, no pop logs the base-pop warning, and once both scopes are
\* left the stack is the stack the threads started on.
C19_BalancedThreads ==
    /\ Depth >= 1
    /\ warned = 0
    /\ \A t \in Threads :
        /\ Depth >= Len(threads[t].start)
        /\ SubSeq(Live, 1, Len(threads[t].start)) = threads[t].start
    /\ (\A t \in Threads : Done(t)) => Live = threads[1].start

\* Both scopes left, thread 2 having entered inside the scope of thread 1 and
\* having seen, after the exit of thread 1, another view than the one yielded.
C19_Witness ==
    /\ Done(1) /\ Done(2) /\ EnteredInside(2, 1)
    /\ threads[2].seen # threads[2].yielded
    /\ op = "thread_pop" /\ warned = 0
    /\ Live = threads[1].start /\ Depth = 2

------------------------------------------------------------------------------
\* The hand-off of a task: inside update(outer), S = save_context(), reset(),
\* the task in its own update(task) scope, restore_context(S), exit of outer.

\* S was saved in the body of the outermost scope, the stack being as the
\* entry of that scope left it, and the caller still holds it.
SavedInOuter ==
    /\ Len(scopes) >= 1 /\ saved # NoRef
    /\ savedAt = push(scopes[1].pre, scopes[1].kwargs)

\* Entry of the task scope after the reset: the dict yielded and dumps() are
\* the remapped task deltas and nothing else.
TaskEntry ==
    (SavedInOuter /\ Len(scopes) = 1 /\ op = "reset" /\ op' = "update") =>
        /\ ret' = RetDict(Innermost'.kwargs)
        /\ Innermost'.yielded = Innermost'.kwargs
        /\ dumps(Live', EmptyDict) = replace_reserved_extra_kwargs(arg'.val)

\* No key of the outer deltas in what the task scope is yielded.
TaskEntryNoOuterKey ==
    (SavedInOuter /\ Len(scopes) = 1 /\ op = "reset" /\ op' = "update") =>
        (DOMAIN ret'.val) \cap (DOMAIN scopes[1].kwargs) = {}

\* No entry of the outer view that the task deltas do not set themselves.
TaskEntryNoOuterLeak ==
    (SavedInOuter /\ Len(scopes) = 1 /\ op = "reset" /\ op' = "update") =>
        \A k \in (DOMAIN Top(savedAt)) \ (DOMAIN Innermost'.kwargs) : k \notin DOMAIN ret'.val

\* Exit of the task scope, restore_context(S), and exit of the outer scope.
TaskReturn ==
    /\ (SavedInOuter /\ Len(scopes) = 2 /\ Innermost.pre = ContextStackInit
            /\ Live = push(Innermost.pre, Innermost.kwargs) /\ op' = "update_exit") =>
            Live' = ContextStackInit /\ warned' = 0
    /\ (SavedInOuter /\ Len(scopes) = 1 /\ op' = "restore" /\ ~Falsy(arg')) =>
            /\ Live' = savedAt
            /\ dumps(Live', EmptyDict) = Top(savedAt)
            /\ dumps(Live', EmptyDict) = scopes[1].yielded
    /\ (SavedInOuter /\ Len(scopes) = 1 /\ op = "restore" /\ ~Falsy(arg)
            /\ op' = "update_exit") =>
            Live' = scopes[1].pre /\ warned' = 0 /\ popped' = 1

\* C15 as claimed: in the hand-off the task scope is yielded, and dumps()
\* returns, exactly the remapped task deltas with no key of outer; after its
\* exit restore_context(S) makes dumps() the view of the moment of the save;
\* the exit of the outer scope then leaves the stack as before its entry.
C15_Original == [][TaskEntry /\ TaskEntryNoOuterKey /\ TaskReturn]_vars

\* C15, amended: in the hand-off the task scope is yielded, and dumps()
\* returns, exactly the remapped task deltas, with no entry of outer other
\* than under the keys the task deltas set themselves; after its exit
\* restore_context(S) makes dumps() the view of the moment of the save; the
\* exit of the outer scope then leaves the stack as before its entry.
C15_Handoff == [][TaskEntry /\ TaskEntryNoOuterLeak /\ TaskReturn]_vars

\* The task scope update(user=1) open on the reset stack, inside
\* update(user=2, message=1) whose state the caller saved.
C15_Witness ==
    /\ op = "update" /\ Len(scopes) = 2 /\ SavedInOuter
    /\ scopes[1].given = [user |-> 2, message |-> 1]
    /\ Innermost.pre = ContextStackInit
    /\ arg = ArgDict([user |-> 1]) /\ ret = RetDict([user |-> 1])
    /\ Live = <<EmptyDict, [user |-> 1]>>
    /\ heap[saved] = <<EmptyDict, [user |-> 2, ctx_message |-> 1]>>

------------------------------------------------------------------------------
\* Properties of the stack as a whole.

\* C16: a push(deltas) followed at once by pop() leaves the stack as it was
\* before the push, and the pop returns the merge of the former top with the
\* deltas. In every reachable state this is what push and pop compute, and
\* it is what a Pop step does that follows a Push step.
C16_PushPop ==
    /\ [](\A deltas \in Kwargs :
            LET r == pop(push(Live, deltas))
            IN  /\ r.attrs = Live
                /\ r.ret = Merge(Top(Live), deltas)
                /\ r.warned = 0)
    /\ [][(op = "push" /\ op' = "pop") =>
            /\ Live' = SubSeq(Live, 1, Depth - 1)
            /\ Live = push(Live', arg.val)
            /\ ret' = RetDict(Merge(Top(Live'), arg.val))
            /\ warned' = 0]_vars

\* pop() has returned the snapshot user=1, message=1, the merge of the deltas
\* user=1, message=1 with the snapshot user=2 that it left on top.
C16_Witness ==
    /\ op = "pop" /\ warned = 0 /\ Depth = 2
    /\ Top(Live) = [user |-> 2]
    /\ ret = RetDict([user |-> 1, message |-> 1])

\* C17: every snapshot above the base is the snapshot below it merged with
\* some deltas, so it has every key of the snapshot below; and no call
\* changes a snapshot that stays on the stack.
C17_Monotone ==
    /\ [](\A i \in 2..Depth :
            /\ (DOMAIN Live[i - 1]) \subseteq (DOMAIN Live[i])
            /\ \E deltas \in DictsOver(DOMAIN Live[i]) : Live[i] = Merge(Live[i - 1], deltas))
    /\ [][\A i \in 1..Depth :
            (i <= Depth' /\ op' \in {"push", "pop", "dumps", "save"}) => Live'[i] = Live[i]]_vars

\* Three snapshots, each with one more key than the one below.
C17_Witness ==
    /\ op = "push" /\ Depth = 3
    /\ Live = <<EmptyDict, [user |-> 1], [user |-> 1, message |-> 1]>>

\* C18: the snapshot at index 0 is always the empty dict, so that dumps()
\* with the stack at depth 1 returns {}.
C18_EmptyBase ==
    /\ Live[1] = EmptyDict
    /\ Depth = 1 => dumps(Live, EmptyDict) = EmptyDict
    /\ (op = "dumps" /\ Depth = 1 /\ arg = ArgDict(EmptyDict)) => ret = RetDict(EmptyDict)

\* dumps() at depth 1, after contexts were pushed, saved and popped.
C18_Witness ==
    /\ op = "dumps" /\ Depth = 1 /\ arg = ArgDict(EmptyDict) /\ ret = RetDict(EmptyDict)
    /\ saved # NoRef /\ Len(savedAt) = 3

====
